---- MODULE Spec2Model ----
(***************************************************************************)
(* Model of the rotor reactor core (src/src/handler.rs): the slot table    *)
(* of event machines with generation counters, Scope::add_machine and the  *)
(* other Scope operations, and the three mio::Handler entry points         *)
(* (ready, notify, timeout) that dispatch through Handler::with_machine.   *)
(*                                                                         *)
(* A machine callback is user code: it is modelled as a frame on `stack`   *)
(* during which the callback may call any Scope operation, any number of   *)
(* times, before it returns.  The slab crate and the mio event loop are    *)
(* not part of the source tree; their behaviour is modelled from the       *)
(* design document (slot registry, section 4.1; channel, section 6).       *)
(***************************************************************************)
EXTENDS Integers, Sequences, FiniteSets, TLC

\* ---- bounds of the model ------------------------------------------------
\* slots of the slab (Slab::new(4096) in Handler::new, scaled down)
SlabCapacity == 2
\* capacity of the notification channel (mio's notify capacity, scaled down)
NotifyCapacity == 1
\* machines ever constructed (each add_machine call is given a fresh one)
MaxMachines == 3
\* events the loop holds: armed timers and readiness events of the batch
MaxPending == 1
\* readiness events of one poll batch when machines hold several descriptors
MaxBatch == 2
\* connections that ever arrive at the listening socket
MaxBacklog == 3
\* answers the stream socket ever gives to read calls, would-block aside
MaxReads == 2
\* answers the stream socket ever gives to write calls, would-block aside
MaxWrites == 1
\* whole seconds of the delays given to set_timeout
MaxSecs == 1
\* advances of the clock of the event loop
MaxTicks == 3

VARIABLES
    slab,          \* Handler.slab: the entries, index -> entry
    vacant,        \* Handler.slab: the freed indices, most recent first
    counter_next,  \* Handler.counter_next
    channel,       \* messages in flight in Handler.channel (FIFO)
    context,       \* Handler.context
    timers,        \* timeouts armed in the event loop
    io_registered, \* machines that registered a descriptor with the poller
    io_events,     \* readiness events of the current poll batch
    stack,         \* callbacks in progress, innermost last
    spawn_result,  \* the last add_machine call: its argument and its result
    next_id,       \* identity of the machine the next add_machine is given
    issued,        \* history: every slot ever stored, with its handle
    calls,         \* history: register and abort invocations, per machine
    evicted,       \* history: machines removed after a failed register
    reg_processed, \* history: generations whose RegisterMachine was handled
    freed_excess,  \* history: slots freed when a ready/timeout returned,
                   \* less the ready/timeout callbacks that returned None
    running,       \* the event loop has been started
    panicked,      \* a panic!() was reached
    receiver_gone, \* the receiving end of the channel has been dropped
    stopped,       \* EventLoop::run has returned
    now,           \* the clock the timer of the event loop reads
    timer_wheel,   \* timeouts armed with timeout_ms, with their delays
    fsm,           \* the transport machine under test (transports/*.rs)
    sock,          \* its socket: what the next system calls will answer
    trace          \* history: what the last ready of the transport did

vars == <<slab, vacant, counter_next, channel, context, timers, io_registered,
          io_events, stack, spawn_result, next_id, issued, calls, evicted,
          reg_processed, freed_excess, running, panicked, receiver_gone,
          stopped, now, timer_wheel, fsm, sock, trace>>

\* an instant, and std::time::Duration: whole milliseconds (seconds) and
\* the nanoseconds of the part below
Time(ms, ns) == [ms |-> ms, ns |-> ns]
Duration(secs, nanos) == [secs |-> secs, nanos |-> nanos]

\* the state of the event loop's surroundings and of the transport machines,
\* which the operations of the handler leave alone
eloop_vars == <<receiver_gone, stopped, now, timer_wheel>>
transport_vars == <<fsm, sock, trace>>

Indices == 0 .. (SlabCapacity - 1)
MachineIds == 1 .. MaxMachines

\* ---- Option<u64> ---------------------------------------------------------
None == [is_some |-> FALSE, val |-> 0]
Some(v) == [is_some |-> TRUE, val |-> v]

\* ---- Token (handler.rs 103-145) ------------------------------------------
from_mio(mio_token) == [mio_token |-> mio_token, counter |-> None]

from_usize(i) == from_mio(i)

set_counter(token, counter) == [token EXCEPT !.counter = Some(counter)]

counter_eq_any(token, other_counter) == TRUE

counter_eq(token, other_counter) ==
    IF token.counter.is_some
    THEN token.counter.val = other_counter
    ELSE TRUE

\* ---- slots ---------------------------------------------------------------
\* EventMachineSlot { machine, counter }
EventMachineSlot(machine, counter) == [machine |-> machine, counter |-> counter]

NoSlot == EventMachineSlot(0, 0)

\* an entry of the slab: vacant, holding a slot, or vacated for the
\* duration of replace_with
Free == [state |-> "Free", slot |-> NoSlot]
Taken == [state |-> "Taken", slot |-> NoSlot]
Occupied(s) == [state |-> "Occupied", slot |-> s]

\* ---- messages ------------------------------------------------------------
RegisterMachine(token) == [kind |-> "RegisterMachine", token |-> token]

\* MessageInner::Phantom, the variant no code constructs
Phantom == [kind |-> "Phantom", token |-> from_mio(0)]

\* mio's Sender::send on a bounded queue: Closed once the receiving end is
\* gone, Full when the queue holds NotifyCapacity messages
channel_send(ch, m) ==
    IF receiver_gone
    THEN [res |-> "Closed", channel |-> ch, back |-> m]
    ELSE IF Len(ch) < NotifyCapacity
         THEN [res |-> "Ok", channel |-> Append(ch, m), back |-> m]
         ELSE [res |-> "Full", channel |-> ch, back |-> m]

\* send_message, a closed channel reported like a full one
send_message_closed_err(ch, m) ==
    LET r == channel_send(ch, m)
    IN CASE r.res = "Ok" -> [res |-> "Ok", channel |-> r.channel, back |-> m]
         [] r.res = "Full" -> [res |-> "Err", channel |-> r.channel, back |-> r.back]
         [] r.res = "Closed" -> [res |-> "Err", channel |-> r.channel, back |-> r.back]
         [] OTHER -> [res |-> "panic", channel |-> r.channel, back |-> m]

\* send_message, a refused message not handed back as it was sent
send_message_back_phantom(ch, m) ==
    LET r == channel_send(ch, m)
    IN CASE r.res = "Ok" -> [res |-> "Ok", channel |-> r.channel, back |-> m]
         [] r.res = "Full" -> [res |-> "Err", channel |-> r.channel, back |-> Phantom]
         [] OTHER -> [res |-> "panic", channel |-> r.channel, back |-> m]

\* send_message (handler.rs 277-294): Err(Io) and Err(Closed) panic
send_message(ch, m) ==
    LET r == channel_send(ch, m)
    IN CASE r.res = "Ok" -> [res |-> "Ok", channel |-> r.channel, back |-> m]
         [] r.res = "Full" -> [res |-> "Err", channel |-> r.channel, back |-> r.back]
         [] OTHER -> [res |-> "panic", channel |-> r.channel, back |-> m]

\* ---- Slab (slot registry) -------------------------------------------------
\* entries the slab has grown to
grown(s, fl) == Cardinality({i \in Indices : s[i].state /= "Free"}) + Len(fl)

NoKey == SlabCapacity

\* the index insert_with hands to its closure: the most recently freed
\* one, else a new one, else none when the slab is at capacity
insert_key(s, fl) ==
    IF fl /= <<>> THEN Head(fl)
    ELSE IF grown(s, fl) < SlabCapacity THEN grown(s, fl)
    ELSE NoKey

\* insert_with stores the value its closure returned
insert_store(s, fl, key, val) ==
    [slab |-> [s EXCEPT ![key] = Occupied(val)],
     vacant |-> IF fl /= <<>> THEN Tail(fl) ELSE fl]

\* replace_with stores what its closure returned for the value it took out
replace_store(s, fl, key, opt) ==
    IF opt.is_some
    THEN [slab |-> [s EXCEPT ![key] = Occupied(opt.val)], vacant |-> fl]
    ELSE [slab |-> [s EXCEPT ![key] = Free], vacant |-> <<key>> \o fl]

\* ---- Scope::add_machine (handler.rs 51-75) -------------------------------
Ok(token) == [ok |-> TRUE, token |-> token, machine |-> 0]
Err(machine) == [ok |-> FALSE, token |-> from_mio(0), machine |-> machine]
NoResult == Err(0)

\* no add_machine call made by the running callback so far
NoSpawn == [ret |-> NoResult, given |-> 0, by |-> 0]

\* add_machine, the insertion not undone when the message is refused
add_machine_keeps_slot(s, fl, ch, cn, machine) ==
    LET counter == cn
        key == insert_key(s, fl)
        token == set_counter(from_usize(key), counter)
        sent == send_message(ch, RegisterMachine(token))
        stored == insert_store(s, fl, key, EventMachineSlot(machine, counter))
    IN IF key = NoKey
       THEN [result |-> Err(machine), slab |-> s, vacant |-> fl, channel |-> ch,
             counter_next |-> cn, invoked |-> {}, panic |-> FALSE]
       ELSE IF sent.res = "Ok"
            THEN [result |-> Ok(set_counter(from_usize(key), counter)),
                  slab |-> stored.slab, vacant |-> stored.vacant,
                  channel |-> sent.channel, counter_next |-> cn + 1,
                  invoked |-> {}, panic |-> FALSE]
            ELSE [result |-> Err(machine), slab |-> stored.slab,
                  vacant |-> stored.vacant, channel |-> sent.channel,
                  counter_next |-> cn, invoked |-> {}, panic |-> FALSE]

\* add_machine, counter_next left as it was
add_machine_same_counter(s, fl, ch, cn, machine) ==
    LET counter == cn
        key == insert_key(s, fl)
        token == set_counter(from_usize(key), counter)
        sent == send_message(ch, RegisterMachine(token))
        stored == insert_store(s, fl, key, EventMachineSlot(machine, counter))
    IN IF key = NoKey
       THEN [result |-> Err(machine), slab |-> s, vacant |-> fl, channel |-> ch,
             counter_next |-> cn, invoked |-> {}, panic |-> FALSE]
       ELSE IF sent.res = "Ok"
            THEN [result |-> Ok(set_counter(from_usize(key), counter)),
                  slab |-> stored.slab, vacant |-> stored.vacant,
                  channel |-> sent.channel, counter_next |-> cn,
                  invoked |-> {}, panic |-> FALSE]
            ELSE [result |-> Err(machine), slab |-> s, vacant |-> fl,
                  channel |-> sent.channel, counter_next |-> cn,
                  invoked |-> {}, panic |-> FALSE]

\* add_machine, the returned handle stamped with the counter after the
\* increment
add_machine_next_counter(s, fl, ch, cn, machine) ==
    LET counter == cn
        key == insert_key(s, fl)
        token == set_counter(from_usize(key), counter)
        sent == send_message(ch, RegisterMachine(token))
        stored == insert_store(s, fl, key, EventMachineSlot(machine, counter))
    IN IF key = NoKey
       THEN [result |-> Err(machine), slab |-> s, vacant |-> fl, channel |-> ch,
             counter_next |-> cn, invoked |-> {}, panic |-> FALSE]
       ELSE IF sent.res = "Ok"
            THEN [result |-> Ok(set_counter(from_usize(key), cn + 1)),
                  slab |-> stored.slab, vacant |-> stored.vacant,
                  channel |-> sent.channel, counter_next |-> cn + 1,
                  invoked |-> {}, panic |-> FALSE]
            ELSE [result |-> Err(machine), slab |-> s, vacant |-> fl,
                  channel |-> sent.channel, counter_next |-> cn,
                  invoked |-> {}, panic |-> FALSE]

\* add_machine, the counter advanced before the message is known to be sent
add_machine_counts_refused(s, fl, ch, cn, machine) ==
    LET counter == cn
        key == insert_key(s, fl)
        token == set_counter(from_usize(key), counter)
        sent == send_message(ch, RegisterMachine(token))
        stored == insert_store(s, fl, key, EventMachineSlot(machine, counter))
    IN IF key = NoKey
       THEN [result |-> Err(machine), slab |-> s, vacant |-> fl, channel |-> ch,
             counter_next |-> cn, invoked |-> {}, panic |-> FALSE]
       ELSE IF sent.res = "Ok"
            THEN [result |-> Ok(set_counter(from_usize(key), counter)),
                  slab |-> stored.slab, vacant |-> stored.vacant,
                  channel |-> sent.channel, counter_next |-> cn + 1,
                  invoked |-> {}, panic |-> FALSE]
            ELSE [result |-> Err(machine), slab |-> s, vacant |-> fl,
                  channel |-> sent.channel, counter_next |-> cn + 1,
                  invoked |-> {}, panic |-> FALSE]

\* add_machine, the register callback run at once instead of being left
\* to the RegisterMachine message
add_machine_eager(s, fl, ch, cn, machine) ==
    LET counter == cn
        key == insert_key(s, fl)
        stored == insert_store(s, fl, key, EventMachineSlot(machine, counter))
    IN IF key = NoKey
       THEN [result |-> Err(machine), slab |-> s, vacant |-> fl, channel |-> ch,
             counter_next |-> cn, invoked |-> {}, panic |-> FALSE]
       ELSE [result |-> Ok(set_counter(from_usize(key), counter)),
             slab |-> stored.slab, vacant |-> stored.vacant,
             channel |-> ch, counter_next |-> cn + 1,
             invoked |-> {"register"}, panic |-> FALSE]

\* result: the value returned; slab, vacant, channel, counter_next: the
\* fields of the handler after the call; invoked: the callbacks of the new
\* machine that run inside the call (none: the closure only sends the
\* message); panic: the call panicked (in send_message, or at
\* unreachable!() when the message handed back is not the one sent)
add_machine(s, fl, ch, cn, machine) ==
    LET counter == cn
        key == insert_key(s, fl)
        token == set_counter(from_usize(key), counter)
        sent == send_message(ch, RegisterMachine(token))
        stored == insert_store(s, fl, key, EventMachineSlot(machine, counter))
    IN IF key = NoKey
       THEN [result |-> Err(machine), slab |-> s, vacant |-> fl, channel |-> ch,
             counter_next |-> cn, invoked |-> {}, panic |-> FALSE]
       ELSE CASE sent.res = "Ok" ->
                   [result |-> Ok(set_counter(from_usize(key), counter)),
                    slab |-> stored.slab, vacant |-> stored.vacant,
                    channel |-> sent.channel, counter_next |-> cn + 1,
                    invoked |-> {}, panic |-> FALSE]
              [] sent.res = "Err" /\ sent.back.kind = "RegisterMachine" ->
                   [result |-> Err(machine), slab |-> s, vacant |-> fl,
                    channel |-> sent.channel, counter_next |-> cn,
                    invoked |-> {}, panic |-> FALSE]
              [] OTHER ->
                   [result |-> NoResult, slab |-> s, vacant |-> fl,
                    channel |-> sent.channel, counter_next |-> cn,
                    invoked |-> {}, panic |-> TRUE]

\* ---- history helpers -----------------------------------------------------
\* invocations of register and abort are counted per machine
NoCalls == [register |-> 0, abort |-> 0]

Called(c, m, kind) ==
    IF kind \in {"register", "abort"} THEN [c EXCEPT ![m][kind] = @ + 1] ELSE c

\* ---- Handler::with_machine (handler.rs 253-275) --------------------------
Frame(kind, token, slot, src) ==
    [kind |-> kind, token |-> token, slot |-> slot, src |-> src]

\* Slab::replace_with finds a value under the index of the token
replace_with_finds(s, token) ==
    /\ token.mio_token \in Indices
    /\ s[token.mio_token].state = "Occupied"

NoneSlot == [is_some |-> FALSE, val |-> NoSlot]
SomeSlot(slot) == [is_some |-> TRUE, val |-> slot]

with_machine_result_keep(ret, slot) == SomeSlot(slot)

\* f(..).map(|()| slot): what the closure of with_machine returns to
\* replace_with for the callback's return value
with_machine_result(ret, slot) ==
    IF ret = "Some" THEN SomeSlot(slot) ELSE NoneSlot

\* no transport machine is driven
NoMachine == [kind |-> "none"]

Init ==
    /\ slab = [i \in Indices |-> Free]
    /\ vacant = <<>>
    /\ counter_next = 0
    /\ channel = <<>>
    /\ context = 0
    /\ timers = {}
    /\ io_registered = {}
    /\ io_events = {}
    /\ stack = <<>>
    /\ spawn_result = NoSpawn
    /\ next_id = 1
    /\ issued = {}
    /\ calls = [m \in MachineIds |-> NoCalls]
    /\ evicted = {}
    /\ reg_processed = {}
    /\ freed_excess = 0
    /\ running = FALSE
    /\ panicked = FALSE
    /\ receiver_gone = FALSE
    /\ stopped = FALSE
    /\ now = Time(0, 0)
    /\ timer_wheel = {}
    /\ fsm = NoMachine
    /\ sock = NoMachine
    /\ trace = <<>>

Pending == Cardinality(timers) + Cardinality(io_events)

\* the loop is between two callbacks: it has not stopped and not panicked
Idle == running /\ stack = <<>> /\ ~panicked /\ ~stopped
InCallback == stack /= <<>> /\ ~panicked
Top == stack[Len(stack)]

\* one call of add_machine with a newly constructed machine
Spawn(caller) ==
    /\ LET r == add_machine(slab, vacant, channel, counter_next, next_id)
           t == r.result.token
           slot == EventMachineSlot(next_id, t.counter.val)
       IN /\ r.result.ok => next_id <= MaxMachines
          /\ vacant' = r.vacant
          /\ channel' = r.channel
          /\ counter_next' = r.counter_next
          /\ spawn_result' = [ret |-> r.result, given |-> next_id, by |-> caller]
          /\ panicked' = r.panic
          /\ next_id' = IF r.result.ok THEN next_id + 1 ELSE next_id
          /\ issued' = IF r.result.ok
                       THEN issued \cup {[slot |-> slot, token |-> t]}
                       ELSE issued
          /\ IF "register" \in r.invoked
             THEN /\ slab' = [r.slab EXCEPT ![t.mio_token] = Taken]
                  /\ stack' = Append(stack, Frame("register", t, slot, 0))
                  /\ calls' = Called(calls, next_id, "register")
             ELSE /\ slab' = r.slab
                  /\ UNCHANGED <<stack, calls>>
    /\ UNCHANGED <<context, timers, io_registered, io_events, evicted,
                   reg_processed, freed_excess, running>>
    /\ UNCHANGED <<eloop_vars, transport_vars>>

\* machines inserted before the loop runs
add_root ==
    /\ ~running /\ ~panicked
    /\ Spawn(0)

\* EventLoop::run
run ==
    /\ ~running /\ ~panicked
    /\ counter_next > 0
    /\ running' = TRUE
    /\ UNCHANGED <<slab, vacant, counter_next, channel, context, timers,
                   io_registered, io_events, stack, spawn_result, next_id,
                   issued, calls, evicted, reg_processed, freed_excess, panicked>>
    /\ UNCHANGED <<eloop_vars, transport_vars>>

\* with_machine, a dispatch the generation check refuses handing None back
\* to replace_with instead of the slot it was given
Dispatch_refused_none(kind, token, src) ==
    IF replace_with_finds(slab, token)
    THEN LET slot == slab[token.mio_token].slot
         IN IF counter_eq(token, slot.counter)
            THEN /\ slab' = [slab EXCEPT ![token.mio_token] = Taken]
                 /\ stack' = Append(stack, Frame(kind, token, slot, src))
                 /\ calls' = Called(calls, slot.machine, kind)
                 /\ UNCHANGED vacant
            ELSE LET w == replace_store([slab EXCEPT ![token.mio_token] = Taken],
                                        vacant, token.mio_token, NoneSlot)
                 IN /\ slab' = w.slab
                    /\ vacant' = w.vacant
                    /\ UNCHANGED <<stack, calls>>
    ELSE UNCHANGED <<slab, vacant, stack, calls>>

\* with_machine, the machine removed from the slab for the call (its entry
\* freed) and stored again afterwards, instead of taken out by replace_with
Dispatch_removes(kind, token, src) ==
    IF replace_with_finds(slab, token)
    THEN LET slot == slab[token.mio_token].slot
         IN IF counter_eq(token, slot.counter)
            THEN /\ slab' = [slab EXCEPT ![token.mio_token] = Free]
                 /\ vacant' = <<token.mio_token>> \o vacant
                 /\ stack' = Append(stack, Frame(kind, token, slot, src))
                 /\ calls' = Called(calls, slot.machine, kind)
            ELSE UNCHANGED <<slab, vacant, stack, calls>>
    ELSE UNCHANGED <<slab, vacant, stack, calls>>

\* with_machine up to the point where f runs: replace_with takes the slot
\* out of the slab and the closure either calls f (a frame is pushed) or
\* hands the slot straight back
Dispatch(kind, token, src) ==
    IF replace_with_finds(slab, token)
    THEN LET slot == slab[token.mio_token].slot
         IN IF counter_eq(token, slot.counter)
            THEN /\ slab' = [slab EXCEPT ![token.mio_token] = Taken]
                 /\ stack' = Append(stack, Frame(kind, token, slot, src))
                 /\ calls' = Called(calls, slot.machine, kind)
                 /\ UNCHANGED vacant
            ELSE LET w == replace_store([slab EXCEPT ![token.mio_token] = Taken],
                                        vacant, token.mio_token, SomeSlot(slot))
                 IN /\ slab' = w.slab
                    /\ vacant' = w.vacant
                    /\ UNCHANGED <<stack, calls>>
    ELSE UNCHANGED <<slab, vacant, stack, calls>>

\* the poller reports readiness of a descriptor a live machine registered
poll(i) ==
    /\ Idle
    /\ Pending < MaxPending
    /\ slab[i].state = "Occupied"
    /\ slab[i].slot.machine \in io_registered
    /\ io_events' = io_events \cup {[token |-> i, src |-> slab[i].slot.machine,
                                      fd |-> 1]}
    /\ UNCHANGED <<slab, vacant, counter_next, channel, context, timers,
                   io_registered, stack, spawn_result, next_id, issued, calls,
                   evicted, reg_processed, freed_excess, running,
                   panicked>>
    /\ UNCHANGED <<eloop_vars, transport_vars>>

\* mio::Handler::ready (handler.rs 216-222)
ready(e) ==
    /\ Idle
    /\ e \in io_events
    /\ io_events' = io_events \ {e}
    /\ Dispatch("ready", from_mio(e.token), e.src)
    /\ UNCHANGED <<counter_next, channel, context, timers, io_registered,
                   spawn_result, next_id, issued, evicted, reg_processed,
                   freed_excess, running, panicked>>
    /\ UNCHANGED <<eloop_vars, transport_vars>>

\* mio::Handler::notify (handler.rs 224-241), up to the register callback
notify ==
    /\ Idle
    /\ channel /= <<>>
    /\ LET msg == Head(channel)
       IN IF msg.kind = "RegisterMachine"
          THEN /\ Dispatch("register", msg.token, 0)
               /\ reg_processed' = reg_processed \cup {msg.token.counter.val}
               /\ UNCHANGED panicked
          ELSE /\ panicked' = TRUE
               /\ UNCHANGED <<slab, vacant, stack, calls, reg_processed>>
    /\ channel' = Tail(channel)
    /\ UNCHANGED <<counter_next, context, timers, io_registered, io_events,
                   spawn_result, next_id, issued, evicted, freed_excess, running>>
    /\ UNCHANGED <<eloop_vars, transport_vars>>

\* mio::Handler::timeout (handler.rs 243-247); the loop handles the
\* readiness events of a poll batch before the expired timers
timeout(t) ==
    /\ Idle
    /\ io_events = {}
    /\ t \in timers
    /\ timers' = timers \ {t}
    /\ Dispatch("timeout", t.token, t.src)
    /\ UNCHANGED <<counter_next, channel, context, io_registered, io_events,
                   spawn_result, next_id, issued, evicted, reg_processed,
                   freed_excess, running, panicked>>
    /\ UNCHANGED <<eloop_vars, transport_vars>>

\* ---- Scope operations called by the running callback --------------------
\* Scope::add_machine
scope_add_machine ==
    /\ InCallback
    /\ Spawn(Top.slot.machine)

\* Scope::set_timeout (handler.rs 77-86)
scope_set_timeout ==
    /\ InCallback
    /\ Pending < MaxPending
    /\ timers' = timers \cup {[token |-> Top.token, src |-> Top.slot.machine]}
    /\ UNCHANGED <<slab, vacant, counter_next, channel, context, io_registered,
                   io_events, stack, spawn_result, next_id, issued, calls,
                   evicted, reg_processed, freed_excess, running,
                   panicked>>
    /\ UNCHANGED <<eloop_vars, transport_vars>>

\* Scope::clear_timeout (handler.rs 88-93) of a timeout the machine holds
scope_clear_timeout(t) ==
    /\ InCallback
    /\ t \in timers
    /\ t.src = Top.slot.machine
    /\ timers' = timers \ {t}
    /\ UNCHANGED <<slab, vacant, counter_next, channel, context, io_registered,
                   io_events, stack, spawn_result, next_id, issued, calls,
                   evicted, reg_processed, freed_excess, running,
                   panicked>>
    /\ UNCHANGED <<eloop_vars, transport_vars>>

\* Scope::register (handler.rs 95-100)
scope_register ==
    /\ InCallback
    /\ Top.slot.machine \notin io_registered
    /\ io_registered' = io_registered \cup {Top.slot.machine}
    /\ UNCHANGED <<slab, vacant, counter_next, channel, context, timers,
                   io_events, stack, spawn_result, next_id, issued, calls,
                   evicted, reg_processed, freed_excess, running,
                   panicked>>
    /\ UNCHANGED <<eloop_vars, transport_vars>>

\* the callback writes to the shared context it was handed
touch_context ==
    /\ InCallback
    /\ context' = 1 - context
    /\ UNCHANGED <<slab, vacant, counter_next, channel, timers, io_registered,
                   io_events, stack, spawn_result, next_id, issued, calls,
                   evicted, reg_processed, freed_excess, running,
                   panicked>>
    /\ UNCHANGED <<eloop_vars, transport_vars>>

\* ---- return of the callback and write-back ------------------------------
Pop == SubSeq(stack, 1, Len(stack) - 1)

FreedBy(s1, s2) ==
    Cardinality({i \in Indices : s1[i].state /= "Free" /\ s2[i].state = "Free"})

\* a dropped machine closes its descriptors
Drop(m) == io_registered \ {m}

\* fsm.ready / machine.timeout returns; with_machine writes the result back
return_ready(ret) ==
    /\ InCallback
    /\ Top.kind \in {"ready", "timeout"}
    /\ LET w == replace_store(slab, vacant, Top.token.mio_token,
                              with_machine_result(ret, Top.slot))
       IN /\ slab' = w.slab
          /\ vacant' = w.vacant
    /\ stack' = Pop
    /\ spawn_result' = NoSpawn
    /\ freed_excess' = freed_excess + FreedBy(slab, slab')
                           - (IF ret = "None" THEN 1 ELSE 0)
    /\ io_registered' = IF slab'[Top.token.mio_token].state = "Free"
                        THEN Drop(Top.slot.machine) ELSE io_registered
    /\ UNCHANGED <<counter_next, channel, context, timers, io_events,
                   next_id, issued, calls, evicted,
                   reg_processed, running, panicked>>
    /\ UNCHANGED <<eloop_vars, transport_vars>>

notify_closure_keep(res) == "Some"

\* the closure of notify (handler.rs 228-236): Some(()) for Ok, None after
\* the abort
notify_closure(res) == IF res = "Ok" THEN "Some" ELSE "None"

\* fsm.register returns Ok: the closure returns Some(())
return_register_ok ==
    /\ InCallback
    /\ Top.kind = "register"
    /\ LET w == replace_store(slab, vacant, Top.token.mio_token,
                              with_machine_result(notify_closure("Ok"), Top.slot))
       IN /\ slab' = w.slab
          /\ vacant' = w.vacant
    /\ stack' = Pop
    /\ spawn_result' = NoSpawn
    /\ UNCHANGED <<counter_next, channel, context, timers, io_registered,
                   io_events, next_id, issued, calls, evicted,
                   reg_processed, freed_excess, running, panicked>>
    /\ UNCHANGED <<eloop_vars, transport_vars>>

\* fsm.register returns Err: the closure calls fsm.abort(RegisterFailed)
return_register_err ==
    /\ InCallback
    /\ Top.kind = "register"
    /\ stack' = [stack EXCEPT ![Len(stack)].kind = "abort"]
    /\ calls' = Called(calls, Top.slot.machine, "abort")
    /\ UNCHANGED <<slab, vacant, counter_next, channel, context, timers,
                   io_registered, io_events, spawn_result, next_id, issued,
                   evicted, reg_processed, freed_excess, running,
                   panicked>>
    /\ UNCHANGED <<eloop_vars, transport_vars>>

\* fsm.abort returns: the closure returns None and the slot is freed
return_abort ==
    /\ InCallback
    /\ Top.kind = "abort"
    /\ LET w == replace_store(slab, vacant, Top.token.mio_token,
                              with_machine_result(notify_closure("Err"), Top.slot))
       IN /\ slab' = w.slab
          /\ vacant' = w.vacant
    /\ stack' = Pop
    /\ spawn_result' = NoSpawn
    /\ evicted' = evicted \cup {Top.slot.machine}
    /\ io_registered' = IF slab'[Top.token.mio_token].state = "Free"
                        THEN Drop(Top.slot.machine) ELSE io_registered
    /\ UNCHANGED <<counter_next, channel, context, timers, io_events,
                   next_id, issued, calls, reg_processed,
                   freed_excess, running, panicked>>
    /\ UNCHANGED <<eloop_vars, transport_vars>>

Next ==
    \/ add_root
    \/ run
    \/ \E i \in Indices : poll(i)
    \/ \E e \in io_events : ready(e)
    \/ notify
    \/ \E t \in timers : timeout(t)
    \/ scope_add_machine
    \/ scope_set_timeout
    \/ \E t \in timers : scope_clear_timeout(t)
    \/ scope_register
    \/ touch_context
    \/ \E ret \in {"Some", "None"} : return_ready(ret)
    \/ return_register_ok
    \/ return_register_err
    \/ return_abort

Spec == Init /\ [][Next]_vars

\* ---- the channel loses its receiver ---------------------------------------
\* the receiving end of the notification channel goes away while the
\* driver runs; the handler keeps its Sender
receiver_dropped ==
    /\ running /\ ~panicked
    /\ ~receiver_gone
    /\ receiver_gone' = TRUE
    /\ UNCHANGED <<slab, vacant, counter_next, channel, context, timers,
                   io_registered, io_events, stack, spawn_result, next_id,
                   issued, calls, evicted, reg_processed, freed_excess,
                   running, panicked, stopped, now, timer_wheel,
                   transport_vars>>

NextClosed == Next \/ receiver_dropped

\* ---- machines with several descriptors -----------------------------------
\* Scope::register puts every descriptor a machine registers under the
\* machine's one mio token: the poller reports a second descriptor of a
\* live machine in the same batch
poll_other(i) ==
    /\ Idle
    /\ Cardinality(io_events) < MaxBatch
    /\ slab[i].state = "Occupied"
    /\ slab[i].slot.machine \in io_registered
    /\ io_events' = io_events \cup {[token |-> i, src |-> slab[i].slot.machine,
                                      fd |-> 2]}
    /\ UNCHANGED <<slab, vacant, counter_next, channel, context, timers,
                   io_registered, stack, spawn_result, next_id, issued, calls,
                   evicted, reg_processed, freed_excess, running,
                   panicked, eloop_vars, transport_vars>>

NextBatch == Next \/ \E i \in Indices : poll_other(i)

\* the handler with machines that register more than one descriptor
SpecBatch == Init /\ [][NextBatch]_vars

\* ---- the loop stops --------------------------------------------------------
\* EventLoop::run returns (EventLoop::shutdown was called, or polling
\* failed): mio calls no method of the handler for it, and the handler
\* implements none that would call EventMachine::shutdown
stop ==
    /\ Idle
    /\ stopped' = TRUE
    /\ UNCHANGED <<slab, vacant, counter_next, channel, context, timers,
                   io_registered, io_events, stack, spawn_result, next_id,
                   issued, calls, evicted, reg_processed, freed_excess,
                   running, panicked, receiver_gone, now, timer_wheel,
                   transport_vars>>

NextStop == Next \/ stop

\* the handler in a loop that may be stopped
SpecStop == Init /\ [][NextStop]_vars

\* the handler under a channel that may report Closed
SpecClosed == Init /\ [][NextClosed]_vars

\* ---- transports::accept (accept.rs) ---------------------------------------
\* Serve::Accept(sock, PhantomData)
Accept == [kind |-> "Accept"]

\* the listening socket: the connections waiting to be accepted and the mio
\* token the machine registered it under
Listener(pending, token) ==
    [kind |-> "listener", pending |-> pending, token |-> token]

\* one entry of the history of a ready invocation
Event(cb, arg) == [cb |-> cb, arg |-> arg]

\* Serve::ready, the Accept machine given up when its child cannot be
\* added
Serve_ready_gives_up(s, fl, ch, cn, pending, child, fails) ==
    IF fails \/ pending = 0
    THEN [ret |-> "Some", slab |-> s, vacant |-> fl, channel |-> ch,
          counter_next |-> cn, pending |-> pending, trace |-> <<>>,
          panic |-> FALSE]
    ELSE LET r == add_machine(s, fl, ch, cn, child)
         IN [ret |-> IF r.result.ok THEN "Some" ELSE "None",
             slab |-> r.slab, vacant |-> r.vacant,
             channel |-> r.channel, counter_next |-> r.counter_next,
             pending |-> pending - 1,
             trace |-> <<Event("accept", child),
                         IF r.result.ok
                         THEN Event("add_machine", r.result.token.mio_token)
                         ELSE Event("abort", child)>>,
             panic |-> r.panic]

\* Serve::ready for Serve::Accept (accept.rs 72-100): one sock.accept();
\* for Ok(Some(child)) the machine Init::accept builds is handed to
\* async_add_machine and aborted with MachineAddError when that fails; the
\* result is Some(Accept) in every case.  s, fl, ch, cn: what the Scope
\* borrows; pending: the connections waiting; child: the machine built;
\* fails: accept() returns Err
Serve_ready(s, fl, ch, cn, pending, child, fails) ==
    IF fails \/ pending = 0
    THEN [ret |-> "Some", slab |-> s, vacant |-> fl, channel |-> ch,
          counter_next |-> cn, pending |-> pending, trace |-> <<>>,
          panic |-> FALSE]
    ELSE LET r == add_machine(s, fl, ch, cn, child)
         IN [ret |-> "Some", slab |-> r.slab, vacant |-> r.vacant,
             channel |-> r.channel, counter_next |-> r.counter_next,
             pending |-> pending - 1,
             trace |-> <<Event("accept", child),
                         IF r.result.ok
                         THEN Event("add_machine", r.result.token.mio_token)
                         ELSE Event("abort", child)>>,
             panic |-> r.panic]

\* the Accept machine stored and registered, nothing waiting
InitAccept ==
    /\ slab = [i \in Indices |->
                 IF i = 0 THEN Occupied(EventMachineSlot(1, 0)) ELSE Free]
    /\ vacant = <<>>
    /\ counter_next = 1
    /\ channel = <<>>
    /\ context = 0
    /\ timers = {}
    /\ io_registered = {1}
    /\ io_events = {}
    /\ stack = <<>>
    /\ spawn_result = NoSpawn
    /\ next_id = 2
    /\ issued = {[slot |-> EventMachineSlot(1, 0),
                  token |-> set_counter(from_usize(0), 0)]}
    /\ calls = [m \in MachineIds |->
                  IF m = 1 THEN [register |-> 1, abort |-> 0] ELSE NoCalls]
    /\ evicted = {}
    /\ reg_processed = {0}
    /\ freed_excess = 0
    /\ running = TRUE
    /\ panicked = FALSE
    /\ receiver_gone = FALSE
    /\ stopped = FALSE
    /\ now = Time(0, 0)
    /\ timer_wheel = {}
    /\ fsm = Accept
    /\ sock = Listener(0, 0)
    /\ trace = <<>>

\* what the accept transport leaves alone
accept_frame ==
    <<context, timers, io_registered, io_events, stack, spawn_result, issued,
      calls, evicted, reg_processed, freed_excess, running, receiver_gone,
      stopped, now, timer_wheel>>

\* a client connects to the listening socket
connect ==
    /\ Idle
    /\ (next_id - 2) + sock.pending < MaxBacklog
    /\ sock' = [sock EXCEPT !.pending = @ + 1]
    /\ UNCHANGED <<slab, vacant, counter_next, channel, next_id, panicked,
                   fsm, trace, accept_frame>>

\* Handler::ready for the token of the listener: with_machine takes the
\* Accept machine out, Serve::ready runs, and its result is written back
accept_ready ==
    /\ Idle
    /\ fsm = Accept
    /\ replace_with_finds(slab, from_mio(sock.token))
    /\ \E fails \in BOOLEAN :
         LET token == from_mio(sock.token)
             slot == slab[token.mio_token].slot
             r == Serve_ready([slab EXCEPT ![token.mio_token] = Taken], vacant,
                              channel, counter_next, sock.pending, next_id, fails)
             w == replace_store(r.slab, r.vacant, token.mio_token,
                                with_machine_result(r.ret, slot))
         IN /\ counter_eq(token, slot.counter)
            /\ slab' = w.slab
            /\ vacant' = w.vacant
            /\ channel' = r.channel
            /\ counter_next' = r.counter_next
            /\ panicked' = r.panic
            /\ sock' = [sock EXCEPT !.pending = r.pending]
            /\ next_id' = IF r.pending /= sock.pending THEN next_id + 1
                          ELSE next_id
            /\ trace' = <<Event("ready", sock.pending)>> \o r.trace
            /\ fsm' = IF r.ret = "Some" THEN Accept ELSE NoMachine
    /\ UNCHANGED accept_frame

\* Handler::notify for the RegisterMachine message of a child: its register
\* succeeds, or fails and the child is aborted and evicted
child_register(res) ==
    /\ Idle
    /\ channel /= <<>>
    /\ LET token == Head(channel).token
       IN IF replace_with_finds(slab, token)
             /\ counter_eq(token, slab[token.mio_token].slot.counter)
          THEN LET w == replace_store(
                           [slab EXCEPT ![token.mio_token] = Taken], vacant,
                           token.mio_token,
                           with_machine_result(notify_closure(res),
                                               slab[token.mio_token].slot))
               IN slab' = w.slab /\ vacant' = w.vacant
          ELSE UNCHANGED <<slab, vacant>>
    /\ channel' = Tail(channel)
    /\ UNCHANGED <<counter_next, next_id, panicked, fsm, sock, trace,
                   accept_frame>>

\* Handler::ready for a child connection whose ready returns None
child_closed(i) ==
    /\ Idle
    /\ i /= sock.token
    /\ slab[i].state = "Occupied"
    /\ LET w == replace_store([slab EXCEPT ![i] = Taken], vacant, i,
                              with_machine_result("None", slab[i].slot))
       IN slab' = w.slab /\ vacant' = w.vacant
    /\ UNCHANGED <<counter_next, channel, next_id, panicked, fsm, sock, trace,
                   accept_frame>>

NextAccept ==
    \/ connect
    \/ accept_ready
    \/ \E res \in {"Ok", "Err"} : child_register(res)
    \/ \E i \in Indices : child_closed(i)

SpecAccept == InitAccept /\ [][NextAccept]_vars

\* ---- transports::greedy_stream (greedy_stream.rs) -------------------------
\* what a read or write on the socket answers: Ok(n), Err(Interrupted) or
\* another Err; a socket with no answer ready answers Err(WouldBlock)
IoOk(n) == [res |-> "Ok", n |-> n]
IoInterrupted == [res |-> "Interrupted", n |-> 0]
IoError == [res |-> "Err", n |-> 0]

\* sizes of the chunks a read returns
Chunks == {4, 6}

ReadAnswers == {IoOk(n) : n \in Chunks \cup {0}} \cup {IoInterrupted, IoError}
WriteAnswers == {IoOk(0), IoOk(1), IoInterrupted, IoError}

\* Stream { sock, inbuf, outbuf, writable, readable, protocol }: the
\* buffers by their length, protocol by whether it is Some
Stream(inbuf, outbuf, writable, readable, protocol) ==
    [kind |-> "Stream", inbuf |-> inbuf, outbuf |-> outbuf,
     writable |-> writable, readable |-> readable, protocol |-> protocol]

\* the socket of the stream: the answers waiting for the next reads and
\* writes, and how many of each it has been given so far
StreamSocket(reads, writes, given, wgiven) ==
    [kind |-> "stream", reads |-> reads, writes |-> writes, given |-> given,
     wgiven |-> wgiven]

\* what the protocol does in one ready invocation: its quit-th
\* data_received returns None (0: none does) and each call puts reply bytes
\* into the output buffer; the input is left in the buffer
Protocols ==
    [quit : 0 .. 2, reply : {0, 1}]

Min(a, b) == IF a < b THEN a ELSE b

Logged(st, entries) == [st EXCEPT !.trace = @ \o entries]

\* data_received calls made so far in the invocation
Received(st) ==
    Cardinality({k \in 1 .. Len(st.trace) : st.trace[k].cb = "data_received"})

\* the write loop, Ok(0) taken for a write like any other
RECURSIVE write_loop_zero_written(_)
write_loop_zero_written(st) ==
    IF st.outbuf = 0 THEN st
    ELSE IF st.writes = <<>>
    THEN Logged([st EXCEPT !.writable = FALSE], <<Event("write_would_block", 0)>>)
    ELSE LET o == Head(st.writes)
             rest == [st EXCEPT !.writes = Tail(@)]
         IN CASE o.res = "Ok" ->
                   write_loop_zero_written(
                       Logged([rest EXCEPT !.outbuf = @ - Min(o.n, @)],
                              <<Event("write", Min(o.n, st.outbuf))>>))
              [] o.res = "Interrupted" ->
                   write_loop_zero_written(
                       Logged(rest, <<Event("write_interrupted", 0)>>))
              [] OTHER ->
                   Logged([rest EXCEPT !.ret = "None"],
                          <<Event("write_error", 0), Event("error_happened", 0)>>)

\* the loops over outbuf.write_to (greedy_stream.rs 103-120 and 152-169)
RECURSIVE write_loop(_)
write_loop(st) ==
    IF st.outbuf = 0 THEN st
    ELSE IF st.writes = <<>>
    THEN Logged([st EXCEPT !.writable = FALSE], <<Event("write_would_block", 0)>>)
    ELSE LET o == Head(st.writes)
             rest == [st EXCEPT !.writes = Tail(@)]
         IN CASE o.res = "Ok" /\ o.n = 0 ->
                   Logged([rest EXCEPT !.ret = "None"],
                          <<Event("write", 0), Event("eof_received", 0)>>)
              [] o.res = "Ok" /\ o.n > 0 ->
                   write_loop(Logged([rest EXCEPT !.outbuf = @ - Min(o.n, @)],
                                     <<Event("write", Min(o.n, st.outbuf))>>))
              [] o.res = "Interrupted" ->
                   write_loop(Logged(rest, <<Event("write_interrupted", 0)>>))
              [] OTHER ->
                   Logged([rest EXCEPT !.ret = "None"],
                          <<Event("write_error", 0), Event("error_happened", 0)>>)

\* the read loop, left after the first chunk it hands to the protocol
RECURSIVE read_loop_once(_, _)
read_loop_once(st, p) ==
    IF st.reads = <<>>
    THEN Logged([st EXCEPT !.readable = FALSE], <<Event("read_would_block", 0)>>)
    ELSE LET o == Head(st.reads)
             rest == [st EXCEPT !.reads = Tail(@)]
         IN CASE o.res = "Ok" /\ o.n = 0 ->
                   Logged([rest EXCEPT !.ret = "None"],
                          <<Event("read", 0), Event("eof_received", 0)>>)
              [] o.res = "Ok" /\ o.n > 0 ->
                   LET got == Logged([rest EXCEPT !.inbuf = @ + o.n],
                                     <<Event("read", o.n),
                                       Event("data_received", st.inbuf + o.n)>>)
                   IN IF Received(got) = p.quit
                      THEN Logged([got EXCEPT !.ret = "None"],
                                  <<Event("data_received_none", 0)>>)
                      ELSE [got EXCEPT !.outbuf = @ + p.reply]
              [] o.res = "Interrupted" ->
                   read_loop_once(Logged(rest, <<Event("read_interrupted", 0)>>), p)
              [] OTHER ->
                   Logged([rest EXCEPT !.ret = "None"],
                          <<Event("read_error", 0), Event("error_happened", 0)>>)

\* the loop over inbuf.read_from (greedy_stream.rs 124-149)
RECURSIVE read_loop(_, _)
read_loop(st, p) ==
    IF st.reads = <<>>
    THEN Logged([st EXCEPT !.readable = FALSE], <<Event("read_would_block", 0)>>)
    ELSE LET o == Head(st.reads)
             rest == [st EXCEPT !.reads = Tail(@)]
         IN CASE o.res = "Ok" /\ o.n = 0 ->
                   Logged([rest EXCEPT !.ret = "None"],
                          <<Event("read", 0), Event("eof_received", 0)>>)
              [] o.res = "Ok" /\ o.n > 0 ->
                   LET got == Logged([rest EXCEPT !.inbuf = @ + o.n],
                                     <<Event("read", o.n),
                                       Event("data_received", st.inbuf + o.n)>>)
                   IN IF Received(got) = p.quit
                      THEN Logged([got EXCEPT !.ret = "None"],
                                  <<Event("data_received_none", 0)>>)
                      ELSE read_loop([got EXCEPT !.outbuf = @ + p.reply], p)
              [] o.res = "Interrupted" ->
                   read_loop(Logged(rest, <<Event("read_interrupted", 0)>>), p)
              [] OTHER ->
                   Logged([rest EXCEPT !.ret = "None"],
                          <<Event("read_error", 0), Event("error_happened", 0)>>)

\* Stream::ready (greedy_stream.rs 97-176): flush on a writable event, read
\* on a readable event, flush what the protocol wrote; st holds the fields
\* of the machine, the answers of the socket and the history
Stream_ready(m, so, evset, p) ==
    LET s0 == [inbuf |-> m.inbuf, outbuf |-> m.outbuf, writable |-> m.writable,
               readable |-> m.readable, reads |-> so.reads,
               writes |-> so.writes, ret |-> "Some",
               trace |-> <<Event("ready", evset)>>]
        s1 == IF "writable" \in evset /\ s0.outbuf > 0
              THEN write_loop([s0 EXCEPT !.writable = TRUE]) ELSE s0
        s2 == IF s1.ret = "None" THEN s1
              ELSE IF "readable" \in evset
              THEN read_loop([s1 EXCEPT !.readable = TRUE], p) ELSE s1
        s3 == IF s2.ret = "None" THEN s2
              ELSE IF s2.writable /\ s2.outbuf > 0 THEN write_loop(s2) ELSE s2
    IN IF m.protocol THEN Logged(s3, <<Event(s3.ret, 0)>>)
       ELSE Logged([s0 EXCEPT !.ret = "None"], <<Event("None", 0)>>)

\* the handler as constructed, driving one Stream that was accepted
\* (greedy_stream.rs 77-89) and registered
InitStream ==
    /\ slab = [i \in Indices |-> Free]
    /\ vacant = <<>>
    /\ counter_next = 0
    /\ channel = <<>>
    /\ context = 0
    /\ timers = {}
    /\ io_registered = {}
    /\ io_events = {}
    /\ stack = <<>>
    /\ spawn_result = NoSpawn
    /\ next_id = 1
    /\ issued = {}
    /\ calls = [m \in MachineIds |-> NoCalls]
    /\ evicted = {}
    /\ reg_processed = {}
    /\ freed_excess = 0
    /\ running = TRUE
    /\ panicked = FALSE
    /\ receiver_gone = FALSE
    /\ stopped = FALSE
    /\ now = Time(0, 0)
    /\ timer_wheel = {}
    /\ fsm = Stream(0, 0, TRUE, FALSE, TRUE)
    /\ sock = StreamSocket(<<>>, <<>>, 0, 0)
    /\ trace = <<>>

\* the fields of the handler, which a transport machine driven alone
\* leaves as they are
handler_vars ==
    <<slab, vacant, counter_next, channel, context, timers, io_registered,
      io_events, stack, spawn_result, next_id, issued, calls, evicted,
      reg_processed, freed_excess, running, panicked, receiver_gone, stopped,
      now, timer_wheel>>

\* the peer sends data, closes, or the connection breaks: the socket has
\* one more answer for a read
sock_read(o) ==
    /\ fsm.kind = "Stream"
    /\ sock.given < MaxReads
    /\ sock' = [sock EXCEPT !.reads = Append(@, o), !.given = @ + 1]
    /\ UNCHANGED <<fsm, trace, handler_vars>>

\* the socket has one more answer for a write
sock_write(o) ==
    /\ fsm.kind = "Stream"
    /\ sock.wgiven < MaxWrites
    /\ sock' = [sock EXCEPT !.writes = Append(@, o), !.wgiven = @ + 1]
    /\ UNCHANGED <<fsm, trace, handler_vars>>

\* Handler::ready dispatching a readiness event to Stream::ready; None
\* destroys the machine
stream_ready(evset, p) ==
    /\ fsm.kind = "Stream"
    /\ LET r == Stream_ready(fsm, sock, evset, p)
       IN /\ fsm' = IF r.ret = "Some"
                    THEN Stream(r.inbuf, r.outbuf, r.writable, r.readable, TRUE)
                    ELSE NoMachine
          /\ sock' = [sock EXCEPT !.reads = r.reads, !.writes = r.writes]
          /\ trace' = r.trace
    /\ UNCHANGED handler_vars

NextStream ==
    \/ \E o \in ReadAnswers : sock_read(o)
    \/ \E o \in WriteAnswers : sock_write(o)
    \/ \E evset \in (SUBSET {"readable", "writable"}) \ {{}} :
          \E p \in Protocols : stream_ready(evset, p)

SpecStream == InitStream /\ [][NextStream]_vars

\* ---------------------------------------------------------------------
\* the datagram adapter (transports/udp.rs)

\* Socket { sock, recv_buf, send_queue, protocol }: the queue of the
\* datagrams to send, each datagram by the number the protocol gave it;
\* protocol is the number of datagrams the protocol has handed to
\* Transport::send so far
Socket(send_queue, protocol) ==
    [kind |-> "Socket", send_queue |-> send_queue, protocol |-> protocol]

\* the UDP socket: the answers waiting for the next recv_from and send_to
\* calls (none: Ok(None), the call would block), how many it has been
\* given, the datagrams it has put on the wire, in order, and those whose
\* send it has once refused with would-block
UdpSocket(recvs, sends, given, wgiven, wire, blocked) ==
    [kind |-> "udp", recvs |-> recvs, sends |-> sends, given |-> given,
     wgiven |-> wgiven, wire |-> wire, blocked |-> blocked]

\* answers of recv_from and send_to other than Ok(None)
UdpAnswers == {IoOk(1), IoInterrupted, IoError}

\* what the protocol does in one ready invocation: its quit-th
\* packet_received returns None (0: none does) and each call sends reply
\* datagrams
UdpProtocols ==
    [quit : 0 .. 2, reply : {0, 1}]

\* VecDeque::push_back, push_front
push_back(q, d) == Append(q, d)
push_front(q, d) == <<d>> \o q

\* Transport::send (udp.rs 34-38), called reply times by packet_received
\* with the datagrams numbered from n + 1
RECURSIVE Transport_send(_, _, _)
Transport_send(q, n, reply) ==
    IF reply = 0 THEN q
    ELSE Transport_send(push_back(q, n + 1), n + 1, reply - 1)

\* packet_received calls made so far in the invocation
PacketsReceived(st) ==
    Cardinality({k \in 1 .. Len(st.trace) : st.trace[k].cb = "packet_received"})

\* the loop over sock.recv_from (udp.rs 81-106)
RECURSIVE recv_loop(_, _)
recv_loop(st, p) ==
    IF st.recvs = <<>>
    THEN Logged(st, <<Event("recv_would_block", 0)>>)
    ELSE LET o == Head(st.recvs)
             rest == [st EXCEPT !.recvs = Tail(@)]
         IN CASE o.res = "Ok" ->
                   LET got == Logged(rest, <<Event("recv_from", o.n),
                                             Event("packet_received", st.protocol)>>)
                   IN IF PacketsReceived(got) = p.quit
                      THEN Logged([got EXCEPT !.ret = "None"],
                                  <<Event("packet_received_none", 0)>>)
                      ELSE recv_loop(
                               [got EXCEPT
                                  !.send_queue = Transport_send(@, st.protocol, p.reply),
                                  !.protocol = @ + p.reply], p)
              [] o.res = "Interrupted" ->
                   recv_loop(Logged(rest, <<Event("recv_interrupted", 0)>>), p)
              [] OTHER ->
                   Logged([rest EXCEPT !.ret = "None"],
                          <<Event("recv_error", 0), Event("error_happened", 0)>>)

\* the send loop, a datagram whose send would block queued again at the
\* back
RECURSIVE send_loop_requeue_back(_)
send_loop_requeue_back(st) ==
    IF st.send_queue = <<>> THEN st
    ELSE LET d == Head(st.send_queue)
             popped == [st EXCEPT !.send_queue = Tail(@)]
         IN IF st.sends = <<>>
            THEN Logged([popped EXCEPT !.send_queue = push_back(@, d),
                                       !.blocked = @ \cup {d}],
                        <<Event("send_to_would_block", d)>>)
            ELSE LET o == Head(st.sends)
                     rest == [popped EXCEPT !.sends = Tail(@)]
                 IN CASE o.res = "Ok" ->
                           send_loop_requeue_back(
                               Logged([rest EXCEPT !.wire = Append(@, d)],
                                      <<Event("send_to", d)>>))
                      [] o.res = "Interrupted" ->
                           send_loop_requeue_back(
                               Logged([rest EXCEPT !.send_queue = push_front(@, d)],
                                      <<Event("send_to_interrupted", d)>>))
                      [] OTHER ->
                           Logged([rest EXCEPT !.send_queue = push_front(@, d),
                                               !.ret = "None"],
                                  <<Event("send_to_error", d),
                                    Event("error_happened", 0)>>)

\* the loop over send_queue.pop_front (udp.rs 108-129)
RECURSIVE send_loop(_)
send_loop(st) ==
    IF st.send_queue = <<>> THEN st
    ELSE LET d == Head(st.send_queue)
             popped == [st EXCEPT !.send_queue = Tail(@)]
         IN IF st.sends = <<>>
            THEN Logged([popped EXCEPT !.send_queue = push_front(@, d),
                                       !.blocked = @ \cup {d}],
                        <<Event("send_to_would_block", d)>>)
            ELSE LET o == Head(st.sends)
                     rest == [popped EXCEPT !.sends = Tail(@)]
                 IN CASE o.res = "Ok" ->
                           send_loop(Logged([rest EXCEPT !.wire = Append(@, d)],
                                            <<Event("send_to", d)>>))
                      [] o.res = "Interrupted" ->
                           send_loop(
                               Logged([rest EXCEPT !.send_queue = push_front(@, d)],
                                      <<Event("send_to_interrupted", d)>>))
                      [] OTHER ->
                           Logged([rest EXCEPT !.send_queue = push_front(@, d),
                                               !.ret = "None"],
                                  <<Event("send_to_error", d),
                                    Event("error_happened", 0)>>)

\* Socket::ready (udp.rs 75-135): receive on a readable event, then send
\* the queue on a writable event
Socket_ready(m, so, evset, p) ==
    LET s0 == [send_queue |-> m.send_queue, protocol |-> m.protocol,
               recvs |-> so.recvs, sends |-> so.sends, wire |-> so.wire,
               blocked |-> so.blocked, ret |-> "Some",
               trace |-> <<Event("ready", evset)>>]
        s1 == IF "readable" \in evset THEN recv_loop(s0, p) ELSE s0
        s2 == IF s1.ret = "None" THEN s1
              ELSE IF "writable" \in evset /\ Len(s1.send_queue) > 0
              THEN send_loop(s1) ELSE s1
    IN Logged(s2, <<Event(s2.ret, 0)>>)

\* the handler as constructed, driving one Socket as Socket::new
\* (udp.rs 60-68) makes it
InitUdp ==
    /\ slab = [i \in Indices |-> Free]
    /\ vacant = <<>>
    /\ counter_next = 0
    /\ channel = <<>>
    /\ context = 0
    /\ timers = {}
    /\ io_registered = {}
    /\ io_events = {}
    /\ stack = <<>>
    /\ spawn_result = NoSpawn
    /\ next_id = 1
    /\ issued = {}
    /\ calls = [m \in MachineIds |-> NoCalls]
    /\ evicted = {}
    /\ reg_processed = {}
    /\ freed_excess = 0
    /\ running = TRUE
    /\ panicked = FALSE
    /\ receiver_gone = FALSE
    /\ stopped = FALSE
    /\ now = Time(0, 0)
    /\ timer_wheel = {}
    /\ fsm = Socket(<<>>, 0)
    /\ sock = UdpSocket(<<>>, <<>>, 0, 0, <<>>, {})
    /\ trace = <<>>

\* a datagram arrives, or the next recv_from is interrupted or fails
udp_recv(o) ==
    /\ fsm.kind = "Socket"
    /\ sock.given < MaxReads
    /\ sock' = [sock EXCEPT !.recvs = Append(@, o), !.given = @ + 1]
    /\ UNCHANGED <<fsm, trace, handler_vars>>

\* the socket has one more answer for a send_to
udp_send(o) ==
    /\ fsm.kind = "Socket"
    /\ sock.wgiven < MaxWrites
    /\ sock' = [sock EXCEPT !.sends = Append(@, o), !.wgiven = @ + 1]
    /\ UNCHANGED <<fsm, trace, handler_vars>>

\* Handler::ready dispatching a readiness event to Socket::ready; None
\* destroys the machine
udp_ready(evset, p) ==
    /\ fsm.kind = "Socket"
    /\ LET r == Socket_ready(fsm, sock, evset, p)
       IN /\ fsm' = IF r.ret = "Some"
                    THEN Socket(r.send_queue, r.protocol)
                    ELSE NoMachine
          /\ sock' = [sock EXCEPT !.recvs = r.recvs, !.sends = r.sends,
                                  !.wire = r.wire, !.blocked = r.blocked]
          /\ trace' = r.trace
    /\ UNCHANGED handler_vars

NextUdp ==
    \/ \E o \in UdpAnswers : udp_recv(o)
    \/ \E o \in UdpAnswers : udp_send(o)
    \/ \E evset \in (SUBSET {"readable", "writable"}) \ {{}} :
          \E p \in UdpProtocols : udp_ready(evset, p)

SpecUdp == InitUdp /\ [][NextUdp]_vars

\* ---------------------------------------------------------------------
\* Scope::set_timeout and the timer of the event loop

\* the delays a callback asks for: whole seconds, with nothing below, with
\* a part below one millisecond, or with one above
SubsecNanos == {0, 400000, 1500000}
Durations == {Duration(secs, nanos) : secs \in 0 .. MaxSecs, nanos \in SubsecNanos}

\* the steps the clock makes between two events
ClockSteps == {Duration(0, 500000), Duration(1, 0)}

\* the instant d after t
After(t, d) ==
    Time(t.ms + d.secs * 1000 + (t.ns + d.nanos) \div 1000000,
         (t.ns + d.nanos) % 1000000)

\* the clock showing instant t after so many advances
Clock(t, ticks) == [ms |-> t.ms, ns |-> t.ns, ticks |-> ticks]

\* instant a is not before instant b
NotBefore(a, b) == a.ms > b.ms \/ (a.ms = b.ms /\ a.ns >= b.ns)

\* let delay_millis = delay.as_secs() * 1_000
\*                    + delay.subsec_nanos() as u64 / 1_000_000
\* (handler.rs 84)
delay_millis(delay) ==
    delay.secs * 1000 + delay.nanos \div 1000000

\* EventLoop::timeout_ms: the timeout is due delay milliseconds after the
\* instant t of the call
timeout_ms(t, delay) == Time(t.ms + delay, t.ns)

\* the handler as constructed, the clock at zero and no timeout armed
InitTimer ==
    /\ slab = [i \in Indices |-> Free]
    /\ vacant = <<>>
    /\ counter_next = 0
    /\ channel = <<>>
    /\ context = 0
    /\ timers = {}
    /\ io_registered = {}
    /\ io_events = {}
    /\ stack = <<>>
    /\ spawn_result = NoSpawn
    /\ next_id = 1
    /\ issued = {}
    /\ calls = [m \in MachineIds |-> NoCalls]
    /\ evicted = {}
    /\ reg_processed = {}
    /\ freed_excess = 0
    /\ running = TRUE
    /\ panicked = FALSE
    /\ receiver_gone = FALSE
    /\ stopped = FALSE
    /\ now = Clock(Time(0, 0), 0)
    /\ timer_wheel = {}
    /\ fsm = NoMachine
    /\ sock = NoMachine
    /\ trace = <<>>

\* what the timer leaves alone
timer_frame ==
    <<slab, vacant, counter_next, channel, context, timers, io_registered,
      io_events, stack, spawn_result, next_id, issued, calls, evicted,
      reg_processed, freed_excess, running, panicked, receiver_gone, stopped,
      transport_vars>>

\* Scope::set_timeout (handler.rs 77-86) called with delay by a callback:
\* the timeout is armed with delay_millis; delay and the instant of the
\* call are kept with it
set_timeout(delay) ==
    /\ Cardinality(timer_wheel) < MaxPending
    /\ timer_wheel' = timer_wheel \cup
         {[at |-> timeout_ms(now, delay_millis(delay)),
           delay_millis |-> delay_millis(delay),
           delay |-> delay,
           deadline |-> After(now, delay)]}
    /\ UNCHANGED <<now, timer_frame>>

\* time passes
clock_advance(step) ==
    /\ now.ticks < MaxTicks
    /\ now' = Clock(After(now, step), now.ticks + 1)
    /\ UNCHANGED <<timer_wheel, timer_frame>>

\* the event loop finds the timeout due and delivers it to
\* Handler::timeout
timer_fires(t) ==
    /\ t \in timer_wheel
    /\ NotBefore(now, t.at)
    /\ timer_wheel' = timer_wheel \ {t}
    /\ UNCHANGED <<now, timer_frame>>

NextTimer ==
    \/ \E delay \in Durations : set_timeout(delay)
    \/ \E step \in ClockSteps : clock_advance(step)
    \/ \E t \in timer_wheel : timer_fires(t)

SpecTimer == InitTimer /\ [][NextTimer]_vars

\* ---- vocabulary of the properties ---------------------------------------
\* this step is a call of add_machine made by a running callback
SpawnCall ==
    /\ stack /= <<>>
    /\ spawn_result' /= spawn_result
    /\ spawn_result' /= NoSpawn

\* the slot table: the entries and the free list
SlabUnchanged == slab' = slab /\ vacant' = vacant

HasVacancy == \E i \in Indices : slab[i].state = "Free"

ChannelAccepts == Len(channel) < NotifyCapacity

\* the slots alive: stored in the slab or taken out by a running callback
LiveSlots ==
    {slab[i].slot : i \in {j \in Indices : slab[j].state = "Occupied"}}
        \cup {stack[k].slot : k \in 1 .. Len(stack)}

C2_GenerationUnique ==
    /\ [][counter_next' >= counter_next]_vars
    /\ [](/\ \A a, b \in issued :
               a.slot.counter = b.slot.counter => a.slot.machine = b.slot.machine
          /\ \A s \in LiveSlots :
               /\ s.counter < counter_next
               /\ \E a \in issued : a.slot = s
          /\ \A a \in issued : \A i \in Indices :
               (/\ slab[i].state = "Occupied"
                /\ counter_eq(a.token, slab[i].slot.counter))
               => slab[i].slot.machine = a.slot.machine)

\* the index of a handle issued earlier holds another machine now
C2_Witness ==
    \E a \in issued :
        /\ slab[a.token.mio_token].state = "Occupied"
        /\ slab[a.token.mio_token].slot.machine /= a.slot.machine

\* the handle addresses a free slot, or an occupied slot of another
\* generation than the concrete one it carries
Stale(token) ==
    \/ slab[token.mio_token].state /= "Occupied"
    \/ /\ token.counter.is_some
       /\ slab[token.mio_token].slot.counter /= token.counter.val

NoEffect ==
    /\ SlabUnchanged
    /\ counter_next' = counter_next
    /\ context' = context
    /\ stack' = stack
    /\ calls' = calls
    /\ ~panicked'

\* C3: the dispatch of a readiness event, a timeout or a register
\* notification whose handle is stale invokes no callback, does not panic
\* and leaves the slot table, the generation counter, the shared context
\* and the channel (but for the notification being handled) unchanged
C3_StaleDispatchNoEffect ==
    [][(running /\ stack = <<>>) =>
         /\ \A e \in io_events :
              (io_events' = io_events \ {e} /\ Stale(from_mio(e.token)))
              => (NoEffect /\ channel' = channel)
         /\ \A t \in timers :
              (timers' = timers \ {t} /\ Stale(t.token))
              => (NoEffect /\ channel' = channel)
         /\ (channel /= <<>> /\ io_events' = io_events /\ timers' = timers
             /\ reg_processed' /= reg_processed
             /\ Stale(Head(channel).token))
              => (NoEffect /\ channel' = Tail(channel))]_vars

\* a RegisterMachine message has been handled without its machine's
\* register being invoked: the dispatch found the handle stale
C3_Witness ==
    /\ stack = <<>>
    /\ \E a \in issued :
         /\ a.slot.counter \in reg_processed
         /\ calls[a.slot.machine].register = 0

\* C4: after a ready or timeout callback the slot of the machine is free
\* exactly when the callback returned None, and holds the same machine with
\* the same generation otherwise; the slots so freed are as many as the
\* callbacks that returned None (freed_excess, their difference, is 0 after
\* every return: each return frees one slot exactly when it returned None)
C4_FreedIffNone ==
    /\ [](freed_excess = 0)
    /\ [][(stack /= <<>> /\ Top.kind \in {"ready", "timeout"} /\ stack' = Pop)
          => LET i == Top.token.mio_token
             IN /\ freed_excess' = freed_excess
                /\ slab'[i] = Free \/ slab'[i] = Occupied(Top.slot)
                /\ \A j \in Indices \ {i} : slab'[j] = slab[j]]_vars

\* a slot has been freed and no machine was evicted: a ready or timeout
\* callback returned None
C4_Witness == stack = <<>> /\ vacant /= <<>> /\ evicted = {}

\* C5: after a failed register the machine has had abort invoked exactly
\* once, its slot is free when the notify handler returns, and no callback
\* runs on it afterwards
C5_RegisterFailedEvicts ==
    /\ [](/\ \A m \in MachineIds : calls[m].abort <= 1
          /\ \A k \in 1 .. Len(stack) :
               stack[k].kind = "abort" => calls[stack[k].slot.machine].abort = 1
          /\ \A m \in evicted :
               /\ calls[m].abort = 1
               /\ calls[m].register = 1
               /\ \A s \in LiveSlots : s.machine /= m)
    /\ [][(stack /= <<>> /\ Top.kind = "abort" /\ stack' = Pop)
          => /\ slab'[Top.token.mio_token].state = "Free"
             /\ Top.slot.machine \in evicted']_vars

\* a machine has been evicted after its register failed
C5_Witness == evicted /= {} /\ stack = <<>>

\* C6: every spawned machine has its register callback invoked exactly
\* once: when the RegisterMachine message of its spawn is handled, and
\* never again
C6_RegisterExactlyOnce ==
    \A a \in issued :
        /\ calls[a.slot.machine].register <= 1
        /\ (a.slot.counter \in reg_processed) <=> (calls[a.slot.machine].register = 1)

\* C7: add_machine invokes no callback of the machine it spawns; register
\* runs only from a notify dispatch started when no callback is running,
\* and at most one callback is running at any moment
C7_NoNestedDispatch ==
    /\ [](Len(stack) <= 1)
    /\ [][/\ SpawnCall => (stack' = stack /\ calls' = calls)
          /\ \A m \in MachineIds :
               calls'[m].register /= calls[m].register
               => (/\ stack = <<>>
                   /\ channel /= <<>>
                   /\ channel' = Tail(channel)
                   /\ stack' = <<Frame("register", Head(channel).token,
                                       slab[Head(channel).token.mio_token].slot, 0)>>
                   /\ slab[Head(channel).token.mio_token].slot.machine = m)]_vars

\* the register callback of a machine that was spawned by a callback is
\* running (the machines inserted before the loop runs are at most as many
\* as the channel holds messages)
C7_Witness ==
    /\ Len(stack) = 1
    /\ Top.kind = "register"
    /\ Top.slot.counter >= NotifyCapacity

\* C8: a timeout is delivered only to the machine that scheduled it
C8_TimeoutOnlyToScheduler ==
    \A k \in 1 .. Len(stack) :
        stack[k].kind = "timeout" => stack[k].slot.machine = stack[k].src

C10_SpawnRejected ==
    [][(SpawnCall /\ (~HasVacancy \/ ~ChannelAccepts)) =>
         LET r == spawn_result'.ret
         IN /\ ~r.ok
            /\ r.machine = next_id
            /\ SlabUnchanged
            /\ counter_next' = counter_next
            /\ channel' = channel
            /\ issued' = issued]_vars

\* a callback's spawn was refused while a slot was vacant: the channel was
\* full
C10_Witness ==
    /\ stack /= <<>>
    /\ spawn_result.by = Top.slot.machine
    /\ ~spawn_result.ret.ok
    /\ spawn_result.ret.machine = spawn_result.given
    /\ spawn_result.given = next_id
    /\ HasVacancy
    /\ ~ChannelAccepts

\* the index the dispatch of this step is for: the slot of the callback
\* that is running, or of the callback this step starts
OwnSlot(j) ==
    \/ stack /= <<>> /\ Top.token.mio_token = j
    \/ stack' /= <<>> /\ stack'[Len(stack')].token.mio_token = j

\* C11: a dispatch to the machine of slot i (ready, timeout, register, the
\* abort and eviction after a failed register included) leaves every other
\* occupied slot as it was: no step removes, replaces or re-stamps a slot
\* other than the one dispatched to, and the only change to another slot is
\* a free slot taking the machine of an add_machine call
C11_OtherSlotsKept ==
    [][\A j \in Indices :
         ~OwnSlot(j) =>
            \/ slab'[j] = slab[j]
            \/ /\ slab[j].state = "Free"
               /\ spawn_result' /= spawn_result
               /\ spawn_result'.ret.ok
               /\ spawn_result'.ret.token.mio_token = j
               /\ slab'[j] = Occupied(EventMachineSlot(next_id, counter_next))]_vars

\* a machine has been aborted and evicted while an older machine keeps
\* its slot
C11_Witness ==
    /\ stack = <<>>
    /\ \E m \in evicted : \E j \in Indices :
         /\ slab[j].state = "Occupied"
         /\ slab[j].slot.machine < m

\* C12: when the channel reports Closed to the send of an add_machine call
\* made while the driver runs (a slot was vacant, so the send is attempted),
\* the call panics: it returns neither Ok nor Err and stores nothing; after
\* the panic no step is taken (no event is dispatched, no callback goes on)
\* and the panic is never cleared
C12_ClosedChannelFatal ==
    /\ [][(/\ running /\ receiver_gone /\ HasVacancy
           /\ spawn_result' /= spawn_result
           /\ spawn_result' /= NoSpawn)
          => /\ panicked'
             /\ spawn_result'.ret = NoResult
             /\ SlabUnchanged
             /\ channel' = channel
             /\ counter_next' = counter_next
             /\ issued' = issued]_vars
    /\ [][panicked => UNCHANGED vars]_vars
    /\ [](~receiver_gone => ~panicked)

\* a callback called add_machine with the receiver gone and the driver
\* panicked
C12_Witness ==
    /\ running
    /\ receiver_gone
    /\ panicked
    /\ stack /= <<>>
    /\ spawn_result.given = next_id
    /\ spawn_result.ret = NoResult

\* C13: the driver is Stopped only after every machine that was live at
\* the stop request has had shutdown invoked and has left the slot table:
\* once the loop has stopped no slot holds a machine
C13_StoppedAfterShutdown ==
    stopped => \A i \in Indices : slab[i].state = "Free"

\* C17: while a callback runs for the machine of slot i the entry i holds
\* the placeholder; an add_machine call of the callback never returns index
\* i; and when the callback returns, the write-back (also the freeing after
\* None) leaves every other entry, the machine the callback spawned
\* included, as it was
C17_PlaceholderHeld ==
    /\ [](\A k \in 1 .. Len(stack) :
            slab[stack[k].token.mio_token] = Taken)
    /\ [][(SpawnCall /\ spawn_result'.ret.ok)
          => /\ spawn_result'.ret.token.mio_token /= Top.token.mio_token
             /\ slab'[Top.token.mio_token] = Taken]_vars
    /\ [][(stack /= <<>> /\ stack' = Pop)
          => /\ \A j \in Indices \ {Top.token.mio_token} : slab'[j] = slab[j]
             /\ (spawn_result.ret.ok /\ spawn_result.by = Top.slot.machine)
                => slab'[spawn_result.ret.token.mio_token] =
                     Occupied(EventMachineSlot(spawn_result.given,
                                               spawn_result.ret.token.counter.val))]_vars

\* a running callback has spawned a machine into an entry freed earlier
\* while its own entry holds the placeholder
C17_Witness ==
    /\ Len(stack) = 1
    /\ slab[Top.token.mio_token] = Taken
    /\ spawn_result.ret.ok
    /\ spawn_result.by = Top.slot.machine
    /\ spawn_result.ret.token.mio_token /= Top.token.mio_token
    /\ slab[spawn_result.ret.token.mio_token].slot.machine = spawn_result.given
    /\ spawn_result.ret.token.counter.val > Top.slot.counter + 1

\* the message the next add_machine call sends
NextRegisterMachine ==
    RegisterMachine(set_counter(from_usize(insert_key(slab, vacant)),
                                counter_next))

\* C18: every message in the channel, so every message the notify handler
\* receives, is a RegisterMachine message carrying a generation; a send the
\* channel refuses hands back the RegisterMachine message it was given; and
\* no panic is reached: neither unimplemented!() in notify nor unreachable!()
\* in add_machine
C18_OnlyRegisterMachine ==
    /\ \A k \in 1 .. Len(channel) :
         /\ channel[k].kind = "RegisterMachine"
         /\ channel[k].token.counter.is_some
    /\ (HasVacancy /\ ~ChannelAccepts)
         => /\ send_message(channel, NextRegisterMachine).res = "Err"
            /\ send_message(channel, NextRegisterMachine).back = NextRegisterMachine
    /\ ~panicked

\* the notify handler has received a message and a callback's add_machine
\* has then had its message refused by the full channel
C18_Witness ==
    /\ reg_processed /= {}
    /\ stack /= <<>>
    /\ spawn_result.given > 0
    /\ ~spawn_result.ret.ok
    /\ spawn_result.ret /= NoResult
    /\ Len(channel) = NotifyCapacity
    /\ HasVacancy

\* C19: a readiness event raised for a descriptor that machine M registered
\* is delivered to M or dropped: the ready callback it starts is never that
\* of another machine stored under the same index since
C19_StaleReadinessDropped ==
    \A k \in 1 .. Len(stack) :
        stack[k].kind = "ready" => stack[k].slot.machine = stack[k].src

\* C14: one ready invocation of the Accept machine takes every connection
\* that is waiting when the event fires: with n waiting (and accept() not
\* failing) it accepts n connections, and spawns a child for each
C14_AcceptDrains ==
    (trace /= <<>> /\ trace[1].cb = "ready" /\ Len(trace) > 1)
        => Cardinality({k \in 1 .. Len(trace) : trace[k].cb = "accept"})
             = trace[1].arg

Last(seq) == seq[Len(seq)]

\* the entries of a history that are calls of cb
CallsOf(h, cb) == {k \in 1 .. Len(h) : h[k].cb = cb}

\* the step is a ready invocation of the stream: the socket was given no
\* new answer
StreamReadyStep ==
    /\ fsm.kind = "Stream"
    /\ sock'.given = sock.given
    /\ sock'.wgiven = sock.wgiven

\* C15: in a ready invocation every successful non-empty read is followed
\* at once by data_received, which sees the bytes of all the reads so far,
\* in read order; data_received is called for nothing else; and a readable
\* invocation that returns Some has read until the socket answered
\* would-block: every chunk waiting in the socket when the event fired was
\* handed to the protocol in that invocation and none is left for a second
\* event
C15_ReadsUntilWouldBlock ==
    /\ [](trace /= <<>> =>
            /\ \A k \in 1 .. Len(trace) :
                 (trace[k].cb = "read" /\ trace[k].arg > 0)
                 => /\ k < Len(trace)
                    /\ trace[k + 1].cb = "data_received"
                    /\ trace[k + 1].arg >= trace[k].arg
                    /\ \A j \in 1 .. (k - 1) :
                         (/\ trace[j].cb = "data_received"
                          /\ CallsOf(trace, "data_received") \cap (j + 1 .. k) = {})
                         => trace[k + 1].arg = trace[j].arg + trace[k].arg
            /\ \A k \in CallsOf(trace, "data_received") :
                 /\ k > 1
                 /\ trace[k - 1].cb = "read"
                 /\ trace[k - 1].arg > 0
            /\ ("readable" \in trace[1].arg /\ Last(trace).cb = "Some")
                 => \E k \in CallsOf(trace, "read_would_block") :
                      CallsOf(trace, "read") \subseteq 1 .. k)
    /\ [][(/\ StreamReadyStep
           /\ "readable" \in trace'[1].arg
           /\ Last(trace').cb = "Some")
          => /\ sock'.reads = <<>>
             /\ Cardinality(CallsOf(trace', "data_received"))
                  = Cardinality({k \in 1 .. Len(sock.reads) :
                                   sock.reads[k].res = "Ok"})]_vars

\* data that came as reads of 6 and of 4 bytes was handed to the protocol
\* in one ready invocation, which ended at would-block
C15_Witness ==
    /\ Len(trace) = 7
    /\ trace[2] = Event("read", 6)
    /\ trace[3] = Event("data_received", 6)
    /\ trace[4] = Event("read", 4)
    /\ trace[5] = Event("data_received", 10)
    /\ trace[6].cb = "read_would_block"
    /\ trace[7].cb = "Some"
    /\ fsm.kind = "Stream"

\* the causes that end a stream: a zero-length read or write, an I/O
\* error that is neither would-block nor interrupted
ZeroLength(h) == {k \in CallsOf(h, "read") \cup CallsOf(h, "write") : h[k].arg = 0}
HardError(h) == CallsOf(h, "read_error") \cup CallsOf(h, "write_error")

\* C20: in a ready invocation of the stream a zero-length read or write is
\* followed by eof_received, and an I/O error other than would-block and
\* interrupted by error_happened; that is the last call the protocol gets
\* and ready returns None, which destroys the machine; eof_received and
\* error_happened are called for nothing else.  An invocation that met only
\* successful transfers, would-block and interrupted, and in which no
\* data_received returned None, returns Some and keeps the protocol
C20_EofErrorTerminal ==
    trace /= <<>> =>
        /\ \A k \in ZeroLength(trace) :
             /\ Len(trace) = k + 2
             /\ trace[k + 1].cb = "eof_received"
             /\ trace[k + 2].cb = "None"
        /\ \A k \in HardError(trace) :
             /\ Len(trace) = k + 2
             /\ trace[k + 1].cb = "error_happened"
             /\ trace[k + 2].cb = "None"
        /\ \A k \in CallsOf(trace, "eof_received") : k - 1 \in ZeroLength(trace)
        /\ \A k \in CallsOf(trace, "error_happened") : k - 1 \in HardError(trace)
        /\ (Last(trace).cb = "None") <=> (fsm = NoMachine)
        /\ (/\ ZeroLength(trace) = {}
            /\ HardError(trace) = {}
            /\ CallsOf(trace, "data_received_none") = {})
             => /\ Last(trace).cb = "Some"
                /\ fsm.kind = "Stream"
                /\ fsm.protocol

\* a write of the reply the protocol queued returned zero: the protocol
\* got eof_received and the machine was destroyed
C20_Witness ==
    /\ fsm = NoMachine
    /\ CallsOf(trace, "write") /= {}
    /\ ZeroLength(trace) \subseteq CallsOf(trace, "write")
    /\ CallsOf(trace, "eof_received") /= {}

\* the send attempts of a history, in order
SendAttempts(h) ==
    {k \in 1 .. Len(h) :
        h[k].cb \in {"send_to", "send_to_would_block", "send_to_interrupted",
                     "send_to_error"}}

\* the step is a ready invocation of the datagram socket
UdpReadyStep ==
    /\ fsm.kind = "Socket"
    /\ sock'.given = sock.given
    /\ sock'.wgiven = sock.wgiven

\* C16: the datagrams on the wire followed by the datagrams in the queue
\* are at all times the datagrams handed to Transport::send, each once and
\* in the order of the calls; in a ready invocation a send that would block
\* puts its datagram back at the front of the queue and is the last send of
\* the invocation, and the sends of an invocation begin with the oldest
\* datagram not yet on the wire and go on to the next one only after a
\* send succeeded
C16_SendOrderKept ==
    /\ [](fsm.kind = "Socket" =>
            /\ sock.wire \o fsm.send_queue = [d \in 1 .. fsm.protocol |-> d]
            /\ \A k \in SendAttempts(trace) :
                 /\ (trace[k].cb = "send_to_would_block")
                      => /\ SendAttempts(trace) \subseteq 1 .. k
                         /\ fsm.send_queue /= <<>>
                         /\ Head(fsm.send_queue) = trace[k].arg
                 /\ \A j \in SendAttempts(trace) :
                      (j < k /\ SendAttempts(trace) \cap (j + 1 .. k - 1) = {})
                      => trace[k].arg
                           = IF trace[j].cb = "send_to" THEN trace[j].arg + 1
                             ELSE trace[j].arg)
    /\ [][(UdpReadyStep /\ SendAttempts(trace') /= {})
          => \A k \in SendAttempts(trace') :
               (SendAttempts(trace') \cap (1 .. k - 1) = {})
               => trace'[k].arg = Len(sock.wire) + 1]_vars

\* datagram 1 was refused with would-block while datagram 2 was queued
\* behind it; on a later writable event it went on the wire, and datagram
\* 2 was tried only after it
C16_Witness ==
    /\ fsm.kind = "Socket"
    /\ 1 \in sock.blocked
    /\ sock.wire = <<1>>
    /\ fsm.send_queue = <<2>>
    /\ \E k \in SendAttempts(trace) :
         /\ trace[k] = Event("send_to", 1)
         /\ k + 1 \in SendAttempts(trace)
         /\ trace[k + 1].arg = 2

\* the step is a ready invocation of the Accept machine that accepted a
\* connection
AcceptedStep == sock'.pending < sock.pending

\* C21: when the machine built for an accepted connection cannot be added
\* (no free slot in the table, or the channel is full), abort is called on
\* it once, with nothing else done to it: the table, the channel and the
\* counter are as before the event and no slot holds the child; the Accept
\* machine is stored back in its slot (its ready returned Some) and stays
\* registered, so that later events reach it.  A child is aborted in no
\* other case
C21_SpawnFailureAborts ==
    /\ [](/\ fsm = Accept
          /\ slab[sock.token].state = "Occupied"
          /\ slab[sock.token].slot.machine = 1
          /\ 1 \in io_registered
          /\ \A k \in CallsOf(trace, "abort") :
               /\ CallsOf(trace, "abort") = {k}
               /\ CallsOf(trace, "add_machine") = {}
               /\ k > 1
               /\ trace[k - 1] = Event("accept", trace[k].arg)
               /\ \A i \in Indices :
                    slab[i].state = "Occupied"
                    => slab[i].slot.machine /= trace[k].arg)
    /\ [][AcceptedStep
          => /\ (CallsOf(trace', "abort") /= {})
                  <=> (\/ \A i \in Indices : slab[i].state /= "Free"
                       \/ Len(channel) >= NotifyCapacity)
             /\ (CallsOf(trace', "abort") /= {})
                  => /\ slab' = slab
                     /\ vacant' = vacant
                     /\ channel' = channel
                     /\ counter_next' = counter_next
                     /\ fsm' = Accept]_vars

\* the third connection accepted found no room: its machine was aborted,
\* the Accept machine is in its slot and a further connection is waiting
\* for the next event
C21_Witness ==
    /\ fsm = Accept
    /\ slab[sock.token].state = "Occupied"
    /\ \E k \in CallsOf(trace, "abort") : trace[k].arg >= 3
    /\ sock.pending > 0

\* C22: a ready or timeout callback runs only on a machine whose register
\* callback has been invoked before: nothing is dispatched to a spawned
\* machine between its spawn and the handling of its RegisterMachine
\* message
C22_RegisterBeforeEvents ==
    \A k \in 1 .. Len(stack) :
        stack[k].kind \in {"ready", "timeout"}
        => calls[stack[k].slot.machine].register >= 1

\* C23: the millisecond delay armed for a timeout is never shorter than the
\* delay given to set_timeout, and a timeout is delivered at or after its
\* deadline, the instant of the call plus the delay, never earlier
C23_TimeoutNotEarly ==
    /\ [](\A t \in timer_wheel :
            \/ t.delay_millis > t.delay.secs * 1000 + t.delay.nanos \div 1000000
            \/ /\ t.delay_millis = t.delay.secs * 1000 + t.delay.nanos \div 1000000
               /\ t.delay.nanos % 1000000 = 0)
    /\ [][\A t \in timer_wheel :
            t \notin timer_wheel' => NotBefore(now, t.deadline)]_vars

====
